---- MODULE Spec2Model ----
(***************************************************************************)
(* Shared-state synchronisation of the TaskFlow dashboard panels.          *)
(*                                                                         *)
(* TaskList (src/components/tasks/TaskList.jsx, lines 21-549) keeps an     *)
(* in-memory projection of the collection stored under the localStorage    *)
(* key 'tasks'; RecentUsers (same file, lines 556-861) does the same for   *)
(* the key 'userLogs'.  A panel instance is a mounted React component; its *)
(* useState cells are the per-instance variables below.  localStorage is   *)
(* shared by every window of the origin; 'storage' events reach a          *)
(* listener either synchronously, through window.dispatchEvent in the      *)
(* window of the writer, or asynchronously, as the browser's own storage   *)
(* event queued on every other window of the origin.                       *)
(*                                                                         *)
(* A string of the program is a TLA+ string in the state; Chars gives its   *)
(* characters, and trim, toLowerCase and includes are computed on those.   *)
(* Fields of a task that no handler reads or writes (priority, dueDate,    *)
(* createdAt) are left out.                                                *)
(***************************************************************************)
EXTENDS Integers, Sequences, FiniteSets, TLC

(***************************************************************************)
(* Bounds of the model.                                                    *)
(***************************************************************************)
NumTaskMgrs == 2      \* TaskList instances
NumWindows  == 2      \* windows (tabs) of the origin
NumLogMgrs  == 2      \* RecentUsers instances
MaxOps      == 3      \* gestures on the TaskList panels per behaviour, after the mounts
MaxLogOps   == 4      \* gestures on the RecentUsers panels per behaviour, after the mounts
MaxFilterLen == 2     \* records of a collection handed to applyFilters on its own

TaskMgrs == 1..NumTaskMgrs
Windows  == 1..NumWindows
LogMgrs  == 1..NumLogMgrs

Null == "null"        \* the JavaScript null of editingTask / deleteConfirm

(***************************************************************************)
(* Strings.                                                                *)
(***************************************************************************)
\* the characters of a string of the program (every string the seed, the
\* stored collection and the inputs hold)
Chars(s) ==
  CASE s = "" -> <<>>
       [] s = "Complete project documentation" -> <<"C","o","m","p","l","e","t","e"," ","p","r","o","j","e","c","t"," ","d","o","c","u","m","e","n","t","a","t","i","o","n">>
       [] s = "Write comprehensive documentation for the TaskFlow project" -> <<"W","r","i","t","e"," ","c","o","m","p","r","e","h","e","n","s","i","v","e"," ","d","o","c","u","m","e","n","t","a","t","i","o","n"," ","f","o","r"," ","t","h","e"," ","T","a","s","k","F","l","o","w"," ","p","r","o","j","e","c","t">>
       [] s = "Fix navigation bug" -> <<"F","i","x"," ","n","a","v","i","g","a","t","i","o","n"," ","b","u","g">>
       [] s = "Address the issue with sidebar navigation on mobile devices" -> <<"A","d","d","r","e","s","s"," ","t","h","e"," ","i","s","s","u","e"," ","w","i","t","h"," ","s","i","d","e","b","a","r"," ","n","a","v","i","g","a","t","i","o","n"," ","o","n"," ","m","o","b","i","l","e"," ","d","e","v","i","c","e","s">>
       [] s = "Implement user feedback" -> <<"I","m","p","l","e","m","e","n","t"," ","u","s","e","r"," ","f","e","e","d","b","a","c","k">>
       [] s = "Add the user feedback form to the dashboard" -> <<"A","d","d"," ","t","h","e"," ","u","s","e","r"," ","f","e","e","d","b","a","c","k"," ","f","o","r","m"," ","t","o"," ","t","h","e"," ","d","a","s","h","b","o","a","r","d">>
       [] s = "Update dependencies" -> <<"U","p","d","a","t","e"," ","d","e","p","e","n","d","e","n","c","i","e","s">>
       [] s = "Update all npm packages to their latest versions" -> <<"U","p","d","a","t","e"," ","a","l","l"," ","n","p","m"," ","p","a","c","k","a","g","e","s"," ","t","o"," ","t","h","e","i","r"," ","l","a","t","e","s","t"," ","v","e","r","s","i","o","n","s">>
       [] s = "Buy Milk" -> <<"B","u","y"," ","M","i","l","k">>
       [] s = "today" -> <<"t","o","d","a","y">>
       [] s = "milk run" -> <<"m","i","l","k"," ","r","u","n">>
       [] s = " " -> <<" ">>
       [] s = "  " -> <<" "," ">>
       [] s = " MILK " -> <<" ","M","I","L","K"," ">>
       [] s = "fix" -> <<"f","i","x">>
       [] s = "New" -> <<"N","e","w">>
       [] s = "DAY" -> <<"D","A","Y">>

UpperChars == <<"A","B","C","D","E","F","G","H","I","J","K","L","M",
                "N","O","P","Q","R","S","T","U","V","W","X","Y","Z">>
LowerChars == <<"a","b","c","d","e","f","g","h","i","j","k","l","m",
                "n","o","p","q","r","s","t","u","v","w","x","y","z">>

\* String.prototype.toLowerCase, one character
LowerChar(c) ==
  IF \E i \in 1..Len(UpperChars) : UpperChars[i] = c
  THEN LowerChars[CHOOSE i \in 1..Len(UpperChars) : UpperChars[i] = c]
  ELSE c

\* String.prototype.toLowerCase
toLowerCase(s) == [i \in 1..Len(s) |-> LowerChar(s[i])]

IsSpace(c) == c \in {" ", "\t", "\n"}

\* String.prototype.trim: drops the white space at both ends
trim(s) ==
  IF \A i \in 1..Len(s) : IsSpace(s[i]) THEN <<>>
  ELSE LET lo == CHOOSE i \in 1..Len(s) :
                   /\ ~IsSpace(s[i])
                   /\ \A j \in 1..(i-1) : IsSpace(s[j])
           hi == CHOOSE i \in 1..Len(s) :
                   /\ ~IsSpace(s[i])
                   /\ \A j \in (i+1)..Len(s) : IsSpace(s[j])
       IN  SubSeq(s, lo, hi)

\* String.prototype.includes: sub occurs in s as a contiguous run
includes(s, sub) ==
  \E k \in 0..(Len(s) - Len(sub)) :
     \A i \in 1..Len(sub) : s[k + i] = sub[i]

(***************************************************************************)
(* Task records and the seed of loadTasks.                                 *)
(***************************************************************************)
\* a task as the handlers see it; updatedAt = 0 stands for "no updatedAt"
Task(id, title, description, status, updatedAt) ==
  [_id |-> id, title |-> title, description |-> description,
   status |-> status, updatedAt |-> updatedAt]

mockTasks ==
  << Task("1",
          "Complete project documentation",
          "Write comprehensive documentation for the TaskFlow project",
          "incomplete", 0),
     Task("2",
          "Fix navigation bug",
          "Address the issue with sidebar navigation on mobile devices",
          "complete", 0),
     Task("3",
          "Implement user feedback",
          "Add the user feedback form to the dashboard",
          "incomplete", 0),
     Task("4",
          "Update dependencies",
          "Update all npm packages to their latest versions",
          "incomplete", 0) >>

(***************************************************************************)
(* The Filter Engine: applyFilters, as the value it hands to               *)
(* setFilteredTasks.                                                       *)
(***************************************************************************)
InitFilters == [status |-> "all", search |-> ""]

MatchesStatus(task, filterSettings) == task.status = filterSettings.status

\* a search that reads the title only
MatchesTitleOnly(task, searchTerm) ==
  includes(toLowerCase(Chars(task.title)), searchTerm)

MatchesSearch(task, searchTerm) ==
  \/ includes(toLowerCase(Chars(task.title)), searchTerm)
  \/ includes(toLowerCase(Chars(task.description)), searchTerm)

\* an applyFilters that also drops the first record it would keep
applyFiltersDroppingHead(taskList, filterSettings) ==
  LET byStatus ==
        IF filterSettings.status # "all"
        THEN SelectSeq(taskList, LAMBDA t : MatchesStatus(t, filterSettings))
        ELSE taskList
  IN  IF byStatus = <<>> THEN <<>> ELSE Tail(byStatus)

\* an applyFilters that filters by status even when the status is 'all'
applyFiltersAlwaysByStatus(taskList, filterSettings) ==
  SelectSeq(taskList, LAMBDA t : MatchesStatus(t, filterSettings))

applyFilters(taskList, filterSettings) ==
  LET byStatus ==
        IF filterSettings.status # "all"
        THEN SelectSeq(taskList, LAMBDA t : MatchesStatus(t, filterSettings))
        ELSE taskList
      searchTerm == trim(toLowerCase(Chars(filterSettings.search)))
  IN  IF trim(Chars(filterSettings.search)) # <<>>
      THEN SelectSeq(byStatus, LAMBDA t : MatchesSearch(t, searchTerm))
      ELSE byStatus

(***************************************************************************)
(* localStorage values.  A value is absent (getItem gives null), the empty *)
(* string, the text "null", text that JSON.parse rejects, or the           *)
(* JSON.stringify of an array of records.                                  *)
(***************************************************************************)
Absent     == [kind |-> "absent",  val |-> <<>>]
EmptyText  == [kind |-> "empty",   val |-> <<>>]
NullText   == [kind |-> "null",    val |-> <<>>]
Malformed  == [kind |-> "garbage", val |-> <<>>]

\* JSON.stringify of an array of records.  Every field of a task is a
\* string and every field of a log a string or null, so JSON.parse of the
\* text gives back records equal to those written.
stringify(records) == [kind |-> "json", val |-> records]

\* the truthiness test `if (storedTasks)`: null and '' are falsy
Truthy(text) == text.kind \notin {"absent", "empty"}

\* JSON.parse throws a SyntaxError on this text
ParseThrows(text) == text.kind \in {"empty", "garbage"}

\* JSON.parse gives an array (otherwise, for the text "null", it gives null)
ParsesToArray(text) == text.kind = "json"

\* the array JSON.parse gives
parse(text) == text.val

(***************************************************************************)
(* Inputs.                                                                 *)
(***************************************************************************)
\* a collection left under 'tasks' by an earlier session
StoredTasks ==
  << Task("1", "Buy Milk", "today", "complete", 0),
     Task("2", "milk run", "", "incomplete", 0) >>

\* what the 'tasks' key may hold when the first panel mounts
TasksAtStart ==
  {Absent, EmptyText, NullText, Malformed, stringify(<<>>), stringify(StoredTasks)}

\* the identifiers of the stored and of the seed records
TaskIds == {"1", "2", "3", "4"}

\* identifiers handed to handleStatusChange; "9" matches no record
TaskIdInputs == {"1", "2", "9"}

\* text typed into the search box
SearchInputs == {"", " MILK "}

StatusInputs == {"all", "complete", "incomplete"}

\* text typed into the edit form
FormInputs == {"  ", "New"}

LoadErrorMessage == "Failed to load tasks. Please try again later."

(***************************************************************************)
(* State.                                                                  *)
(***************************************************************************)
VARIABLES
  localStorage,    \* key -> value, shared by every window of the origin
  events,          \* window -> queue of the browser's storage events for it
  now,             \* Date.now(), in ticks
  ops,             \* user gestures so far
  life,            \* TaskList instance -> "init" | "mounted" | "unmounted"
  win,             \* TaskList instance -> the window it is rendered in
  timer,           \* TaskList instance -> the 500 ms load delay is pending
  tasks,           \* useState cells of each TaskList instance
  filteredTasks,
  loading,
  error,
  editingTask,
  editForm,
  filters,
  last,            \* history: the step just taken
  seedWrites,      \* history: how often loadTasks wrote the seed
  logLife,         \* RecentUsers instance -> "init" | "mounted" | "unmounted"
  logTimer,        \* RecentUsers instance -> the 500 ms load delay is pending
  userLogs,        \* useState cells of each RecentUsers instance
  logsLoading,
  deleteConfirm

taskCells == <<tasks, filteredTasks, loading, error, editingTask, editForm, filters>>
taskVars  == <<events, life, win, timer, taskCells, seedWrites>>
logVars   == <<logLife, logTimer, userLogs, logsLoading, deleteConfirm>>
vars      == <<localStorage, now, ops, last, taskVars, logVars>>

\* the step just taken: which handler, of which instance (or window), on
\* which identifier; ran = the instances whose handleStorageChange it ran;
\* src = the instance whose write the handled event reports
Step(op, m, id, ran, src) == [op |-> op, m |-> m, id |-> id, ran |-> ran, src |-> src]

TaskInit ==
  /\ events = [w \in Windows |-> <<>>]
  /\ life = [m \in TaskMgrs |-> "init"]
  /\ win = [m \in TaskMgrs |-> 1]
  /\ timer = [m \in TaskMgrs |-> FALSE]
  /\ tasks = [m \in TaskMgrs |-> <<>>]
  /\ filteredTasks = [m \in TaskMgrs |-> <<>>]
  /\ loading = [m \in TaskMgrs |-> TRUE]
  /\ error = [m \in TaskMgrs |-> Null]
  /\ editingTask = [m \in TaskMgrs |-> Null]
  /\ editForm = [m \in TaskMgrs |-> [title |-> "", description |-> ""]]
  /\ filters = [m \in TaskMgrs |-> InitFilters]
  /\ seedWrites = 0

LogInit ==
  /\ logLife = [m \in LogMgrs |-> "init"]
  /\ logTimer = [m \in LogMgrs |-> FALSE]
  /\ userLogs = [m \in LogMgrs |-> <<>>]
  /\ logsLoading = [m \in LogMgrs |-> TRUE]
  /\ deleteConfirm = [m \in LogMgrs |-> Null]

Init ==
  /\ \E t \in TasksAtStart : localStorage = [tasks |-> t, userLogs |-> Absent]
  /\ now = 1
  /\ ops = 0
  /\ last = Step("init", 0, Null, {}, 0)
  /\ TaskInit
  /\ LogInit

(***************************************************************************)
(* The store and the notifier.                                             *)
(***************************************************************************)
\* the storage event of a write
StorageEvent(key, newValue, src) == [key |-> key, newValue |-> newValue, src |-> src]

\* localStorage.setItem(key, text) called in window w by instance src: the
\* value is replaced, and if it changed the browser queues a storage event
\* on every other window
setItem(key, text, w, src) ==
  /\ localStorage' = [localStorage EXCEPT ![key] = text]
  /\ events' = [v \in Windows |->
                  IF v # w /\ localStorage[key] # text
                  THEN Append(events[v], StorageEvent(key, text, src))
                  ELSE events[v]]

\* listeners that the cleanup of the mount effect does not remove
ListenersNeverRemoved(w) == {m \in TaskMgrs : life[m] # "init" /\ win[m] = w}

\* the instances whose 'storage' listener is registered on window w
Listeners(w) == {m \in TaskMgrs : life[m] = "mounted" /\ win[m] = w}

\* e.newValue || '[]'
NewValueOrEmpty(e) == IF Truthy(e.newValue) THEN e.newValue ELSE stringify(<<>>)

\* handleStorageChange(e) replaces the projection (it reaches setTasks)
HandlerSetsTasks(e) == e.key = "tasks" /\ ~ParseThrows(NewValueOrEmpty(e))

\* handleStorageChange(e) reaches setFilteredTasks
HandlerSetsFiltered(e) == HandlerSetsTasks(e) /\ ParsesToArray(NewValueOrEmpty(e))

\* a handleStorageChange that drops the event
HandledTasksDropped(e, cur) == cur

\* what handleStorageChange(e) leaves in the tasks cell that held cur
HandledTasks(e, cur) ==
  IF HandlerSetsTasks(e) THEN parse(NewValueOrEmpty(e)) ELSE cur

\* what handleStorageChange(e) leaves in the filteredTasks cell that held
\* cur: the listener was created by the mount effect, so the `filters` it
\* closes over is the initial one
HandledFiltered(e, cur) ==
  IF HandlerSetsFiltered(e)
  THEN applyFilters(parse(NewValueOrEmpty(e)), InitFilters)
  ELSE cur

\* the event e is dispatched on the listeners in S, after the state
\* updates t (tasks) and f (filteredTasks) of the handler that is running
Dispatch(S, e, t, f) ==
  /\ tasks' = [m \in TaskMgrs |-> IF m \in S THEN HandledTasks(e, t[m]) ELSE t[m]]
  /\ filteredTasks' =
       [m \in TaskMgrs |-> IF m \in S THEN HandledFiltered(e, f[m]) ELSE f[m]]

(***************************************************************************)
(* TaskList: mount, load, unmount.                                         *)
(***************************************************************************)
\* what the instance renders: the list with its filter bar and buttons
MainView(m) ==
  /\ life[m] = "mounted"
  /\ ~loading[m]
  /\ error[m] = Null
  /\ tasks[m] # <<>>

\* the mount effect: loadTasks() starts its delay, the listener is added.
\* Instances and windows are interchangeable, so instance m is the m-th to
\* mount and opens no window beyond the m-th.
Mount(m, w) ==
  /\ life[m] = "init"
  /\ \A k \in 1..(m - 1) : life[k] # "init"
  /\ w <= m
  /\ life' = [life EXCEPT ![m] = "mounted"]
  /\ win' = [win EXCEPT ![m] = w]
  /\ timer' = [timer EXCEPT ![m] = TRUE]
  /\ last' = Step("mount", m, Null, {}, 0)
  /\ UNCHANGED <<localStorage, events, now, ops, taskCells, seedWrites, logVars>>

\* the cleanup of the mount effect: the listener is removed (the delay of
\* loadTasks is not cancelled)
Unmount(m) ==
  /\ life[m] = "mounted"
  /\ ops < MaxOps
  /\ life' = [life EXCEPT ![m] = "unmounted"]
  /\ ops' = ops + 1
  /\ last' = Step("unmount", m, Null, {}, 0)
  /\ UNCHANGED <<localStorage, events, now, win, timer, taskCells, seedWrites, logVars>>

\* state setters without the setLoading(false) of the finally block
LoadSetsKeepingSpinner(m, t, f, err) ==
  /\ IF life[m] = "mounted"
     THEN /\ tasks' = [tasks EXCEPT ![m] = t]
          /\ filteredTasks' = [filteredTasks EXCEPT ![m] = f]
          /\ error' = [error EXCEPT ![m] = err]
     ELSE UNCHANGED <<tasks, filteredTasks, error>>
  /\ UNCHANGED loading

\* the state setters of loadTasks: React drops them once the instance is
\* unmounted.  t = <<>> also stands for the null that setTasks(null) stores:
\* with error set the render returns before it reads tasks.
LoadSets(m, t, f, err) ==
  IF life[m] = "mounted"
  THEN /\ tasks' = [tasks EXCEPT ![m] = t]
       /\ filteredTasks' = [filteredTasks EXCEPT ![m] = f]
       /\ error' = [error EXCEPT ![m] = err]
       /\ loading' = [loading EXCEPT ![m] = FALSE]
  ELSE UNCHANGED <<tasks, filteredTasks, error, loading>>

\* a loadTasks that writes the seed over a stored array
LoadStoredReseeding(m, stored) ==
  /\ Truthy(stored) /\ ParsesToArray(stored)
  /\ setItem("tasks", stringify(mockTasks), win[m], m)
  /\ seedWrites' = seedWrites + 1
  /\ LoadSets(m, mockTasks, applyFilters(mockTasks, InitFilters), Null)

\* loadTasks found a stored array
LoadStored(m, stored) ==
  /\ Truthy(stored) /\ ParsesToArray(stored)
  /\ LoadSets(m, parse(stored), applyFilters(parse(stored), InitFilters), Null)
  /\ UNCHANGED <<localStorage, events, seedWrites>>

\* a loadTasks that falls back to the seed when JSON.parse throws
LoadParseErrorReseeding(m, stored) ==
  /\ Truthy(stored) /\ ParseThrows(stored)
  /\ setItem("tasks", stringify(mockTasks), win[m], m)
  /\ seedWrites' = seedWrites + 1
  /\ LoadSets(m, mockTasks, applyFilters(mockTasks, InitFilters), Null)

\* loadTasks found text that JSON.parse rejects: the catch block
LoadParseError(m, stored) ==
  /\ Truthy(stored) /\ ParseThrows(stored)
  /\ LoadSets(m, tasks[m], filteredTasks[m], LoadErrorMessage)
  /\ UNCHANGED <<localStorage, events, seedWrites>>

\* loadTasks found the text "null": setTasks(null), then applyFilters throws
\* on [...null], and the catch block runs
LoadNotArray(m, stored) ==
  /\ Truthy(stored) /\ ~ParseThrows(stored) /\ ~ParsesToArray(stored)
  /\ LoadSets(m, <<>>, filteredTasks[m], LoadErrorMessage)
  /\ UNCHANGED <<localStorage, events, seedWrites>>

\* a loadTasks that uses the seed without storing it
LoadSeedNotStored(m, stored) ==
  /\ ~Truthy(stored)
  /\ seedWrites' = seedWrites + 1
  /\ LoadSets(m, mockTasks, applyFilters(mockTasks, InitFilters), Null)
  /\ UNCHANGED <<localStorage, events>>

\* loadTasks found nothing (null or ''): it writes and uses the seed
LoadSeed(m, stored) ==
  /\ ~Truthy(stored)
  /\ setItem("tasks", stringify(mockTasks), win[m], m)
  /\ seedWrites' = seedWrites + 1
  /\ LoadSets(m, mockTasks, applyFilters(mockTasks, InitFilters), Null)

\* the delay of loadTasks elapses and the rest of loadTasks runs
loadTasks(m) ==
  /\ timer[m]
  /\ timer' = [timer EXCEPT ![m] = FALSE]
  /\ LET stored == localStorage["tasks"]
     IN  \/ LoadStored(m, stored)
         \/ LoadParseError(m, stored)
         \/ LoadNotArray(m, stored)
         \/ LoadSeed(m, stored)
  /\ last' = Step("load", m, Null, {}, 0)
  /\ UNCHANGED <<now, ops, life, win, editingTask, editForm, filters, logVars>>

\* a delivery whose handler passes the event on to the other windows
DeliverRebroadcasting(w) ==
  /\ events[w] # <<>>
  /\ events' = [v \in Windows |->
                  IF v = w THEN Tail(events[w])
                  ELSE Append(events[v], Head(events[w]))]
  /\ Dispatch(Listeners(w), Head(events[w]), tasks, filteredTasks)
  /\ last' = Step("deliver", w, Null, Listeners(w), Head(events[w]).src)
  /\ UNCHANGED <<localStorage, now, ops, life, win, timer, loading, error,
                 editingTask, editForm, filters, seedWrites, logVars>>

\* the browser delivers the oldest storage event queued on window w
DeliverStorageEvent(w) ==
  /\ events[w] # <<>>
  /\ events' = [events EXCEPT ![w] = Tail(events[w])]
  /\ Dispatch(Listeners(w), Head(events[w]), tasks, filteredTasks)
  /\ last' = Step("deliver", w, Null, Listeners(w), Head(events[w]).src)
  /\ UNCHANGED <<localStorage, now, ops, life, win, timer, loading, error,
                 editingTask, editForm, filters, seedWrites, logVars>>

(***************************************************************************)
(* TaskList: the handlers.                                                 *)
(***************************************************************************)
\* new Date() when a handler runs: gestures are at least a tick apart
ClockReads(t) == t = now + 1

Flip(status) == IF status = "complete" THEN "incomplete" ELSE "complete"

\* a tasks.map that ignores the identifier
ToggledEveryTask(taskList, taskId, t) ==
  [i \in 1..Len(taskList) |->
     [taskList[i] EXCEPT !.status = Flip(taskList[i].status), !.updatedAt = t]]

\* a handleStatusChange that keeps the toggled record only
ToggledTasksDroppingOthers(taskList, taskId, t) ==
  [i \in 1..Len(SelectSeq(taskList, LAMBDA r : r._id = taskId)) |->
     [SelectSeq(taskList, LAMBDA r : r._id = taskId)[i]
        EXCEPT !.status = Flip(@), !.updatedAt = t]]

\* the tasks.map of handleStatusChange
ToggledTasks(taskList, taskId, t) ==
  [i \in 1..Len(taskList) |->
     IF taskList[i]._id = taskId
     THEN [taskList[i] EXCEPT !.status = Flip(taskList[i].status), !.updatedAt = t]
     ELSE taskList[i]]

\* a tasks.map that keeps the old description
EditedTitleOnly(taskList, taskId, form, t) ==
  [i \in 1..Len(taskList) |->
     IF taskList[i]._id = taskId
     THEN [taskList[i] EXCEPT !.title = form.title, !.updatedAt = t]
     ELSE taskList[i]]

\* the tasks.map of saveTask
EditedTasks(taskList, taskId, form, t) ==
  [i \in 1..Len(taskList) |->
     IF taskList[i]._id = taskId
     THEN [taskList[i] EXCEPT !.title = form.title,
                              !.description = form.description,
                              !.updatedAt = t]
     ELSE taskList[i]]

\* a tail without localStorage.setItem
WriteWithoutStoring(m, updatedTasks) ==
  /\ UNCHANGED <<localStorage, events>>
  /\ Dispatch(Listeners(win[m]), StorageEvent("tasks", stringify(updatedTasks), m),
              [tasks EXCEPT ![m] = updatedTasks],
              [filteredTasks EXCEPT ![m] = applyFilters(updatedTasks, filters[m])])

\* the common tail of handleStatusChange and saveTask: setTasks,
\* applyFilters, localStorage.setItem, window.dispatchEvent.  dispatchEvent
\* runs every 'storage' listener of the window before it returns, and the
\* state updates of those listeners are queued after the handler's own.
WriteThrough(m, updatedTasks) ==
  LET text == stringify(updatedTasks)
  IN  /\ setItem("tasks", text, win[m], m)
      /\ Dispatch(Listeners(win[m]), StorageEvent("tasks", text, m),
                  [tasks EXCEPT ![m] = updatedTasks],
                  [filteredTasks EXCEPT ![m] = applyFilters(updatedTasks, filters[m])])

handleStatusChange(m, taskId) ==
  /\ MainView(m)
  /\ ops < MaxOps
  /\ \E t \in 1..(now + 1) :
       /\ ClockReads(t)
       /\ now' = t
       /\ WriteThrough(m, ToggledTasks(tasks[m], taskId, t))
  /\ ops' = ops + 1
  /\ last' = Step("toggle", m, taskId, Listeners(win[m]), m)
  /\ UNCHANGED <<life, win, timer, loading, error, editingTask, editForm,
                 filters, seedWrites, logVars>>

\* a validation that does not trim
TitleIsEmpty(form) == form.title = ""

\* the form validation of saveTask
TitleIsBlank(form) == trim(Chars(form.title)) = <<>>

\* the edit form of the task in edit mode is on screen
FormShown(m) ==
  /\ MainView(m)
  /\ \E i \in 1..Len(filteredTasks[m]) : filteredTasks[m][i]._id = editingTask[m]

\* a rejected save that also leaves edit mode
saveTaskRejectedClosingForm(m, taskId) ==
  /\ FormShown(m)
  /\ taskId = editingTask[m]
  /\ ops < MaxOps
  /\ TitleIsBlank(editForm[m])
  /\ editingTask' = [editingTask EXCEPT ![m] = Null]
  /\ ops' = ops + 1
  /\ last' = Step("saveRejected", m, taskId, {}, 0)
  /\ UNCHANGED <<localStorage, now, events, life, win, timer, tasks,
                 filteredTasks, loading, error, editForm, filters,
                 seedWrites, logVars>>

\* the Save button with a blank title: alert, return
saveTaskRejected(m, taskId) ==
  /\ FormShown(m)
  /\ taskId = editingTask[m]
  /\ ops < MaxOps
  /\ TitleIsBlank(editForm[m])
  /\ ops' = ops + 1
  /\ last' = Step("saveRejected", m, taskId, {}, 0)
  /\ UNCHANGED <<localStorage, now, taskVars, logVars>>

\* the Save button of the edit form
saveTask(m, taskId) ==
  /\ FormShown(m)
  /\ taskId = editingTask[m]
  /\ ops < MaxOps
  /\ ~TitleIsBlank(editForm[m])
  /\ \E t \in 1..(now + 1) :
       /\ ClockReads(t)
       /\ now' = t
       /\ WriteThrough(m, EditedTasks(tasks[m], taskId, editForm[m], t))
  /\ editingTask' = [editingTask EXCEPT ![m] = Null]
  /\ ops' = ops + 1
  /\ last' = Step("save", m, taskId, Listeners(win[m]), m)
  /\ UNCHANGED <<life, win, timer, loading, error, editForm, filters,
                 seedWrites, logVars>>

\* the Edit button of the i-th listed task
startEditing(m, i) ==
  /\ MainView(m)
  /\ ops < MaxOps
  /\ i \in 1..Len(filteredTasks[m])
  /\ filteredTasks[m][i]._id # editingTask[m]
  /\ editingTask' = [editingTask EXCEPT ![m] = filteredTasks[m][i]._id]
  /\ editForm' = [editForm EXCEPT ![m] =
                    [title |-> filteredTasks[m][i].title,
                     description |-> filteredTasks[m][i].description]]
  /\ ops' = ops + 1
  /\ last' = Step("edit", m, filteredTasks[m][i]._id, {}, 0)
  /\ UNCHANGED <<localStorage, now, events, life, win, timer, tasks,
                 filteredTasks, loading, error, filters, seedWrites, logVars>>

handleInputChange(m, name, value) ==
  /\ FormShown(m)
  /\ ops < MaxOps
  /\ editForm[m][name] # value
  /\ editForm' = [editForm EXCEPT ![m][name] = value]
  /\ ops' = ops + 1
  /\ last' = Step("input", m, editingTask[m], {}, 0)
  /\ UNCHANGED <<localStorage, now, events, life, win, timer, tasks,
                 filteredTasks, loading, error, editingTask, filters,
                 seedWrites, logVars>>

cancelEditing(m) ==
  /\ FormShown(m)
  /\ ops < MaxOps
  /\ editingTask' = [editingTask EXCEPT ![m] = Null]
  /\ ops' = ops + 1
  /\ last' = Step("cancel", m, editingTask[m], {}, 0)
  /\ UNCHANGED <<localStorage, now, events, life, win, timer, tasks,
                 filteredTasks, loading, error, editForm, filters,
                 seedWrites, logVars>>

\* a filter change that also leaves edit mode
SetFiltersClosingForm(m, newFilters) ==
  /\ filters' = [filters EXCEPT ![m] = newFilters]
  /\ filteredTasks' = [filteredTasks EXCEPT ![m] = applyFilters(tasks[m], newFilters)]
  /\ editingTask' = [editingTask EXCEPT ![m] = Null]
  /\ UNCHANGED <<localStorage, now, events, life, win, timer, tasks, loading,
                 error, editForm, seedWrites, logVars>>

\* setFilters(newFilters); applyFilters(tasks, newFilters)
SetFilters(m, newFilters) ==
  /\ filters' = [filters EXCEPT ![m] = newFilters]
  /\ filteredTasks' = [filteredTasks EXCEPT ![m] = applyFilters(tasks[m], newFilters)]
  /\ UNCHANGED <<localStorage, now, events, life, win, timer, tasks, loading,
                 error, editingTask, editForm, seedWrites, logVars>>

\* the status select or the search box changes
handleFilterChange(m, filterType, value) ==
  /\ MainView(m)
  /\ ops < MaxOps
  /\ filters[m][filterType] # value
  /\ SetFilters(m, [filters[m] EXCEPT ![filterType] = value])
  /\ ops' = ops + 1
  /\ last' = Step("filter", m, Null, {}, 0)

\* the Clear Filters button, shown when no task matches active filters
clearFilters(m) ==
  /\ MainView(m)
  /\ ops < MaxOps
  /\ filteredTasks[m] = <<>>
  /\ filters[m].status # "all" \/ filters[m].search # ""
  /\ SetFilters(m, [status |-> "all", search |-> ""])
  /\ ops' = ops + 1
  /\ last' = Step("clear", m, Null, {}, 0)

TaskNext ==
  \/ \E m \in TaskMgrs, w \in Windows : Mount(m, w)
  \/ \E m \in TaskMgrs : Unmount(m)
  \/ \E m \in TaskMgrs : loadTasks(m)
  \/ \E w \in Windows : DeliverStorageEvent(w)
  \/ \E m \in TaskMgrs, taskId \in TaskIdInputs : handleStatusChange(m, taskId)
  \/ \E m \in TaskMgrs, taskId \in TaskIds : saveTaskRejected(m, taskId)
  \/ \E m \in TaskMgrs, taskId \in TaskIds : saveTask(m, taskId)
  \/ \E m \in TaskMgrs, i \in 1..4 : startEditing(m, i)
  \/ \E m \in TaskMgrs, value \in FormInputs : handleInputChange(m, "title", value)
  \/ \E m \in TaskMgrs, value \in FormInputs : handleInputChange(m, "description", value)
  \/ \E m \in TaskMgrs : cancelEditing(m)
  \/ \E m \in TaskMgrs, value \in StatusInputs : handleFilterChange(m, "status", value)
  \/ \E m \in TaskMgrs, value \in SearchInputs : handleFilterChange(m, "search", value)
  \/ \E m \in TaskMgrs : clearFilters(m)

Next == TaskNext

Spec == Init /\ [][Next]_vars

\* the same, with the 500 ms timer of every loadTasks firing once it is set
FairSpec == Spec /\ \A m \in TaskMgrs : WF_vars(loadTasks(m))

(***************************************************************************)
(* RecentUsers.  The storage events of its writes carry the key 'userLogs' *)
(* and RecentUsers registers no listener, so they reach no handler of the  *)
(* program and are not queued here.                                        *)
(***************************************************************************)
HourMs == 3600000
TwoHoursMs == 7200000
DayMs == 86400000

Log(id, username, role, loginTime) ==
  [id |-> id, username |-> username, role |-> role, loginTime |-> loginTime]

\* the mockLogs of loadUserLogs and of resetLogs, built at time t
mockLogs(t) ==
  << Log("1", "admin@example.com", "admin", t - HourMs),
     Log("2", "user@example.com", "user", t - TwoHoursMs),
     Log("3", "test@example.com", "user", t - DayMs) >>

\* a collection left under 'userLogs' by an earlier session, not in order
StoredLogs ==
  << Log("5", "user@example.com", "user", 40 - DayMs),
     Log("6", "admin@example.com", "admin", 70 - DayMs),
     Log("7", "test@example.com", "user", 40 - DayMs) >>

\* what the 'userLogs' key may hold when the first panel mounts
LogsAtStart ==
  {Absent, EmptyText, NullText, Malformed, stringify(<<>>), stringify(StoredLogs)}

\* the condition under which loadUserLogs parses the stored text
LogsUsable(text) == Truthy(text) /\ text # NullText /\ text # stringify(<<>>)

\* a sort that leaves the records in their stored order
LogsUnsorted(logs) == logs

\* one step of the sort: x goes behind every record that does not log in
\* before it (Array.prototype.sort is stable)
RECURSIVE InsertLog(_, _)
InsertLog(sorted, x) ==
  IF sorted = <<>> THEN <<x>>
  ELSE IF Head(sorted).loginTime >= x.loginTime
       THEN <<Head(sorted)>> \o InsertLog(Tail(sorted), x)
       ELSE <<x>> \o sorted

\* parsedLogs.sort((a, b) => new Date(b.loginTime) - new Date(a.loginTime))
RECURSIVE SortLogs(_)
SortLogs(logs) ==
  IF logs = <<>> THEN <<>>
  ELSE InsertLog(SortLogs(SubSeq(logs, 1, Len(logs) - 1)), logs[Len(logs)])

\* the table with its buttons is on screen
LogsView(m) == logLife[m] = "mounted" /\ ~logsLoading[m]

LogStart ==
  /\ \E t \in LogsAtStart : localStorage = [tasks |-> Absent, userLogs |-> t]
  /\ now = 1
  /\ ops = 0
  /\ last = Step("init", 0, Null, {}, 0)
  /\ TaskInit
  /\ LogInit

\* the mount effect of RecentUsers: loadUserLogs() starts its delay
MountLogs(m) ==
  /\ logLife[m] = "init"
  /\ \A k \in 1..(m - 1) : logLife[k] # "init"
  /\ logLife' = [logLife EXCEPT ![m] = "mounted"]
  /\ logTimer' = [logTimer EXCEPT ![m] = TRUE]
  /\ last' = Step("mount", m, Null, {}, 0)
  /\ UNCHANGED <<localStorage, now, ops, taskVars, userLogs, logsLoading, deleteConfirm>>

UnmountLogs(m) ==
  /\ logLife[m] = "mounted"
  /\ ops < MaxLogOps
  /\ logLife' = [logLife EXCEPT ![m] = "unmounted"]
  /\ ops' = ops + 1
  /\ last' = Step("unmount", m, Null, {}, 0)
  /\ UNCHANGED <<localStorage, now, taskVars, logTimer, userLogs, logsLoading, deleteConfirm>>

\* the state setters of loadUserLogs: React drops them once the instance is
\* unmounted
LogLoadSets(m, logs) ==
  IF logLife[m] = "mounted"
  THEN /\ userLogs' = [userLogs EXCEPT ![m] = logs]
       /\ logsLoading' = [logsLoading EXCEPT ![m] = FALSE]
  ELSE UNCHANGED <<userLogs, logsLoading>>

\* loadUserLogs found a stored collection
LoadLogsStored(m, stored) ==
  /\ LogsUsable(stored) /\ ~ParseThrows(stored)
  /\ LogLoadSets(m, SortLogs(parse(stored)))
  /\ UNCHANGED localStorage

\* loadUserLogs found text that JSON.parse rejects: the catch block
LoadLogsParseError(m, stored) ==
  /\ LogsUsable(stored) /\ ParseThrows(stored)
  /\ LogLoadSets(m, userLogs[m])
  /\ UNCHANGED localStorage

\* loadUserLogs found nothing, 'null' or '[]': it writes and uses the seed
LoadLogsSeed(m, stored) ==
  /\ ~LogsUsable(stored)
  /\ localStorage' = [localStorage EXCEPT !["userLogs"] = stringify(mockLogs(now))]
  /\ LogLoadSets(m, mockLogs(now))

\* the delay of loadUserLogs elapses and the rest of loadUserLogs runs
loadUserLogs(m) ==
  /\ logTimer[m]
  /\ logTimer' = [logTimer EXCEPT ![m] = FALSE]
  /\ LET stored == localStorage["userLogs"]
     IN  \/ LoadLogsStored(m, stored)
         \/ LoadLogsParseError(m, stored)
         \/ LoadLogsSeed(m, stored)
  /\ last' = Step("load", m, Null, {}, 0)
  /\ UNCHANGED <<now, ops, taskVars, logLife, deleteConfirm>>

\* a filter that drops the first row, whatever its identifier
WithoutFirstLog(logs, logId) == Tail(logs)

\* userLogs.filter(log => log.id !== logId)
WithoutLog(logs, logId) == SelectSeq(logs, LAMBDA log : log.id # logId)

\* the identifiers of the rows on screen
RowIds(m) == {userLogs[m][i].id : i \in 1..Len(userLogs[m])}

\* a handleDelete that, asked about another row, removes the row that was
\* awaiting confirmation
requestDeleteDroppingPending(m, logId) ==
  /\ LogsView(m)
  /\ ops < MaxLogOps
  /\ logId \in RowIds(m)
  /\ deleteConfirm[m] # logId
  /\ deleteConfirm' = [deleteConfirm EXCEPT ![m] = logId]
  /\ userLogs' = [userLogs EXCEPT ![m] = WithoutLog(userLogs[m], deleteConfirm[m])]
  /\ ops' = ops + 1
  /\ now' = now + 1
  /\ last' = Step("request", m, logId, {}, 0)
  /\ UNCHANGED <<localStorage, taskVars, logLife, logTimer, logsLoading>>

\* handleDelete on a row that is not awaiting confirmation: ask first
requestDelete(m, logId) ==
  /\ LogsView(m)
  /\ ops < MaxLogOps
  /\ logId \in RowIds(m)
  /\ deleteConfirm[m] # logId
  /\ deleteConfirm' = [deleteConfirm EXCEPT ![m] = logId]
  /\ ops' = ops + 1
  /\ now' = now + 1
  /\ last' = Step("request", m, logId, {}, 0)
  /\ UNCHANGED <<localStorage, taskVars, logLife, logTimer, userLogs, logsLoading>>

\* a confirmed delete without setDeleteConfirm(null)
confirmDeleteKeepingMarker(m, logId) ==
  /\ LogsView(m)
  /\ ops < MaxLogOps
  /\ logId \in RowIds(m)
  /\ deleteConfirm[m] = logId
  /\ userLogs' = [userLogs EXCEPT ![m] = WithoutLog(userLogs[m], logId)]
  /\ localStorage' = [localStorage EXCEPT
                        !["userLogs"] = stringify(WithoutLog(userLogs[m], logId))]
  /\ ops' = ops + 1
  /\ now' = now + 1
  /\ last' = Step("delete", m, logId, {}, 0)
  /\ UNCHANGED <<taskVars, logLife, logTimer, logsLoading, deleteConfirm>>

\* handleDelete on the row awaiting confirmation: remove, write, reset
confirmDelete(m, logId) ==
  /\ LogsView(m)
  /\ ops < MaxLogOps
  /\ logId \in RowIds(m)
  /\ deleteConfirm[m] = logId
  /\ userLogs' = [userLogs EXCEPT ![m] = WithoutLog(userLogs[m], logId)]
  /\ localStorage' = [localStorage EXCEPT
                        !["userLogs"] = stringify(WithoutLog(userLogs[m], logId))]
  /\ deleteConfirm' = [deleteConfirm EXCEPT ![m] = Null]
  /\ ops' = ops + 1
  /\ now' = now + 1
  /\ last' = Step("delete", m, logId, {}, 0)
  /\ UNCHANGED <<taskVars, logLife, logTimer, logsLoading>>

\* a Cancel button that removes the row it belongs to
cancelDeleteRemoving(m) ==
  /\ LogsView(m)
  /\ ops < MaxLogOps
  /\ deleteConfirm[m] \in RowIds(m)
  /\ deleteConfirm' = [deleteConfirm EXCEPT ![m] = Null]
  /\ userLogs' = [userLogs EXCEPT ![m] = WithoutLog(userLogs[m], deleteConfirm[m])]
  /\ ops' = ops + 1
  /\ now' = now + 1
  /\ last' = Step("cancelDelete", m, deleteConfirm[m], {}, 0)
  /\ UNCHANGED <<localStorage, taskVars, logLife, logTimer, logsLoading>>

\* the Cancel button of the row awaiting confirmation
cancelDelete(m) ==
  /\ LogsView(m)
  /\ ops < MaxLogOps
  /\ deleteConfirm[m] \in RowIds(m)
  /\ deleteConfirm' = [deleteConfirm EXCEPT ![m] = Null]
  /\ ops' = ops + 1
  /\ now' = now + 1
  /\ last' = Step("cancelDelete", m, deleteConfirm[m], {}, 0)
  /\ UNCHANGED <<localStorage, taskVars, logLife, logTimer, userLogs, logsLoading>>

\* a Reset Logs button that is rendered whatever the table holds
resetLogsAnytime(m) ==
  /\ LogsView(m)
  /\ ops < MaxLogOps
  /\ localStorage' = [localStorage EXCEPT !["userLogs"] = stringify(mockLogs(now + 1))]
  /\ userLogs' = [userLogs EXCEPT ![m] = mockLogs(now + 1)]
  /\ ops' = ops + 1
  /\ now' = now + 1
  /\ last' = Step("reset", m, Null, {}, 0)
  /\ UNCHANGED <<taskVars, logLife, logTimer, logsLoading, deleteConfirm>>

\* the Reset Logs button, rendered when the table is empty
resetLogs(m) ==
  /\ LogsView(m)
  /\ ops < MaxLogOps
  /\ Len(userLogs[m]) = 0
  /\ localStorage' = [localStorage EXCEPT !["userLogs"] = stringify(mockLogs(now + 1))]
  /\ userLogs' = [userLogs EXCEPT ![m] = mockLogs(now + 1)]
  /\ ops' = ops + 1
  /\ now' = now + 1
  /\ last' = Step("reset", m, Null, {}, 0)
  /\ UNCHANGED <<taskVars, logLife, logTimer, logsLoading, deleteConfirm>>

LogIds == {"1", "2", "3", "5", "6", "7"}

LogNext ==
  \/ \E m \in LogMgrs : MountLogs(m)
  \/ \E m \in LogMgrs : UnmountLogs(m)
  \/ \E m \in LogMgrs : loadUserLogs(m)
  \/ \E m \in LogMgrs, logId \in LogIds : requestDelete(m, logId)
  \/ \E m \in LogMgrs, logId \in LogIds : confirmDelete(m, logId)
  \/ \E m \in LogMgrs : cancelDelete(m)
  \/ \E m \in LogMgrs : resetLogs(m)

LogSpec == LogStart /\ [][LogNext]_vars

(***************************************************************************)
(* applyFilters on its own: an instance holds an arbitrary collection and  *)
(* arbitrary filters, applyFilters(tasks, filters) runs, and then          *)
(* applyFilters runs again on the filtered view it has set.                *)
(***************************************************************************)
\* the records the collections are made of
FilterTasks ==
  { StoredTasks[1], StoredTasks[2], mockTasks[2], mockTasks[3] }

RECURSIVE SeqsUpTo(_, _)
SeqsUpTo(S, n) ==
  IF n = 0 THEN {<<>>}
  ELSE LET shorter == SeqsUpTo(S, n - 1)
       IN  shorter \cup {Append(q, x) : q \in shorter, x \in S}

FilterCollections == SeqsUpTo(FilterTasks, MaxFilterLen)

\* text of the search box: empty, blank, padded upper case, lower case
FilterSearches == {"", "  ", " MILK ", "fix", "DAY"}

FilterSettings == [status : StatusInputs, search : FilterSearches]

FilterStart ==
  /\ localStorage = [tasks |-> Absent, userLogs |-> Absent]
  /\ now = 1
  /\ ops = 0
  /\ last = Step("init", 0, Null, {}, 0)
  /\ events = [w \in Windows |-> <<>>]
  /\ life = [m \in TaskMgrs |-> IF m = 1 THEN "mounted" ELSE "init"]
  /\ win = [m \in TaskMgrs |-> 1]
  /\ timer = [m \in TaskMgrs |-> FALSE]
  /\ \E C \in FilterCollections :
       tasks = [m \in TaskMgrs |-> IF m = 1 THEN C ELSE <<>>]
  /\ \E S \in FilterSettings :
       filters = [m \in TaskMgrs |-> IF m = 1 THEN S ELSE InitFilters]
  /\ filteredTasks = [m \in TaskMgrs |-> <<>>]
  /\ loading = [m \in TaskMgrs |-> m # 1]
  /\ error = [m \in TaskMgrs |-> Null]
  /\ editingTask = [m \in TaskMgrs |-> Null]
  /\ editForm = [m \in TaskMgrs |-> [title |-> "", description |-> ""]]
  /\ seedWrites = 0
  /\ LogInit

\* applyFilters(tasks, filters): the result goes to setFilteredTasks
FilterApply ==
  /\ last.op = "init"
  /\ filteredTasks' = [filteredTasks EXCEPT ![1] = applyFilters(tasks[1], filters[1])]
  /\ last' = Step("apply", 1, Null, {}, 0)
  /\ UNCHANGED <<localStorage, now, ops, events, life, win, timer, tasks,
                 loading, error, editingTask, editForm, filters, seedWrites, logVars>>

\* applyFilters(filteredTasks, filters): the filter applied to its result
FilterReapply ==
  /\ last.op = "apply"
  /\ filteredTasks' = [filteredTasks EXCEPT ![1] = applyFilters(filteredTasks[1], filters[1])]
  /\ last' = Step("reapply", 1, Null, {}, 0)
  /\ UNCHANGED <<localStorage, now, ops, events, life, win, timer, tasks,
                 loading, error, editingTask, editForm, filters, seedWrites, logVars>>

FilterNext == FilterApply \/ FilterReapply

FilterSpec == FilterStart /\ [][FilterNext]_vars

(***************************************************************************)
(* Vocabulary of the properties.                                           *)
(***************************************************************************)
\* the instance has finished loading without error
Ready(m) == life[m] = "mounted" /\ ~loading[m] /\ error[m] = Null

HasId(list, id) == \E i \in 1..Len(list) : list[i]._id = id

IdsOf(list) == [i \in 1..Len(list) |-> list[i]._id]

\* the collection stored under 'tasks'
StoredCollection == parse(localStorage["tasks"])

\* the step just taken is a write (toggle or accepted save) of instance a
WroteThrough(a) == last'.op \in {"toggle", "save"} /\ last'.m = a

(***************************************************************************)
(* C1.  Cross-instance sync: when instance a toggles or saves, every other *)
(* subscribed instance of its window holds a's new collection as soon as   *)
(* the handler returns, and every other window has that collection queued  *)
(* as a storage event; when a queued event is delivered to a window, each  *)
(* subscribed instance there holds the collection the event carries.  No   *)
(* loadTasks of the receiving instance is involved.                        *)
(***************************************************************************)
C1_CrossInstanceSync ==
  [][ /\ \A a \in TaskMgrs : WroteThrough(a) =>
           /\ \A b \in Listeners(win[a]) : tasks'[b] = tasks'[a]
           /\ \A w \in Windows \ {win[a]} :
                localStorage' # localStorage =>
                  /\ events'[w] # <<>>
                  /\ parse(events'[w][Len(events'[w])].newValue) = tasks'[a]
      /\ \A w \in Windows : last'.op = "deliver" /\ last'.m = w =>
           \A b \in Listeners(w) : tasks'[b] = parse(Head(events[w]).newValue)
    ]_vars

\* an event written by a toggle or a save in another window has been
\* delivered to a loaded instance, whose projection now shows the change
C1_Witness ==
  /\ last.op = "deliver"
  /\ \E b \in last.ran :
       /\ Ready(b)
       /\ b # last.src
       /\ win[b] # win[last.src]
       /\ tasks[b] = StoredCollection
       /\ tasks[b] \notin {mockTasks, StoredTasks}

(***************************************************************************)
(* C2.  The filtered view of an instance that has loaded without error is  *)
(* applyFilters of its projection and its current filters.                 *)
(***************************************************************************)
C2_FilteredViewFollowsFilters ==
  \A m \in TaskMgrs :
    Ready(m) => filteredTasks[m] = applyFilters(tasks[m], filters[m])

(***************************************************************************)
(* C3.  The handleStorageChange of an instance never runs for an event     *)
(* that reports a write of that same instance.                             *)
(***************************************************************************)
C3_NoSelfDelivery ==
  last.op \in {"toggle", "save", "deliver"} => last.src \notin last.ran

(***************************************************************************)
(* C4.  Eventual consistency: when every storage event has been delivered, *)
(* the projection of every instance that has loaded without error is the   *)
(* collection stored under 'tasks'.                                        *)
(***************************************************************************)
AllDelivered == \A w \in Windows : events[w] = <<>>

C4_ConsistentWhenDelivered ==
  AllDelivered => \A m \in TaskMgrs : Ready(m) => tasks[m] = StoredCollection

(***************************************************************************)
(* C5.  Log panels stay consistent: after a confirmed delete or a reset by *)
(* one RecentUsers instance, every other loaded instance that showed the   *)
(* stored records before shows the records now stored under 'userLogs';    *)
(* and a confirmed delete never returns to the store a record that was no  *)
(* longer stored.                                                          *)
(***************************************************************************)
LogIdSet(logs) == {logs[i].id : i \in 1..Len(logs)}

StoredLogIds == LogIdSet(parse(localStorage["userLogs"]))

C5_LogPanelsResync ==
  [][ /\ last'.op \in {"delete", "reset"} =>
           \A b \in LogMgrs \ {last'.m} :
              (LogsView(b) /\ LogIdSet(userLogs[b]) = StoredLogIds
                 /\ ParsesToArray(localStorage["userLogs"]))
                => LogIdSet(userLogs'[b]) = StoredLogIds'
      /\ last'.op = "delete" => StoredLogIds' \subseteq StoredLogIds
    ]_vars

(***************************************************************************)
(* C6.  Task seeding: when loadTasks of a mounted instance finds the       *)
(* 'tasks' key absent, the projection of the instance becomes the four     *)
(* default records, identifiers '1' to '4', and the collection stored      *)
(* under 'tasks' is those same four records.                               *)
(***************************************************************************)
SeedIds == <<"1", "2", "3", "4">>

C6_SeedOnAbsent ==
  [][ \A m \in TaskMgrs :
        (last'.op = "load" /\ last'.m = m /\ life[m] = "mounted"
           /\ localStorage["tasks"] = Absent) =>
          /\ IdsOf(tasks'[m]) = SeedIds
          /\ tasks'[m] = mockTasks
          /\ ParsesToArray(localStorage'["tasks"])
          /\ StoredCollection' = tasks'[m]
    ]_vars

\* an instance has just loaded from an absent key and shows the seed
C6_Witness ==
  /\ last.op = "load"
  /\ seedWrites = 1
  /\ Ready(last.m)
  /\ Len(tasks[last.m]) = 4
  /\ StoredCollection = tasks[last.m]

(***************************************************************************)
(* C7.  Idempotent seeding.  As claimed: a loadTasks that changes the      *)
(* store found the 'tasks' key absent.                                     *)
(***************************************************************************)
C7_SeedOnlyWhenAbsent ==
  [][ (last'.op = "load" /\ localStorage' # localStorage)
        => localStorage["tasks"] = Absent ]_vars

\* C7 as amended: loadTasks writes the seed exactly when the key is absent
\* or holds the empty string, and otherwise leaves the store as it is; over
\* a whole behaviour the seed is written at most once, and never once a
\* toggle or a save has written the key.
C7_SeedOnlyWhenEmpty ==
  [][ /\ last'.op = "load" =>
           IF localStorage["tasks"] \in {Absent, EmptyText}
           THEN localStorage'["tasks"] = stringify(mockTasks)
           ELSE localStorage' = localStorage
      /\ seedWrites' <= 1
      /\ (seedWrites' > seedWrites) => now = 1
    ]_vars

\* two instances have loaded, the first wrote the seed, the second found
\* the collection as a toggle of the first had left it
C7_Witness ==
  /\ last.op = "load"
  /\ seedWrites = 1
  /\ now > 1
  /\ \A m \in TaskMgrs : Ready(m)
  /\ StoredCollection # mockTasks
  /\ tasks[last.m] = StoredCollection

(***************************************************************************)
(* C8.  Task load failure.  As claimed: when the 'tasks' key holds text    *)
(* that does not deserialize into a collection, loadTasks ends in the      *)
(* error state, writes no seed and leaves the store as it is.              *)
(***************************************************************************)
LoadFails(m) ==
  /\ life[m] = "mounted" => error'[m] = LoadErrorMessage /\ ~loading'[m]
  /\ localStorage' = localStorage
  /\ seedWrites' = seedWrites

C9_ToggleFlipsOne ==
  [][ \A m \in TaskMgrs :
        (last'.op = "toggle" /\ last'.m = m /\ HasId(tasks[m], last'.id)) =>
          /\ IdsOf(tasks'[m]) = IdsOf(tasks[m])
          /\ \A i \in 1..Len(tasks[m]) :
               /\ tasks'[m][i].title = tasks[m][i].title
               /\ tasks'[m][i].description = tasks[m][i].description
               /\ IF tasks[m][i]._id = last'.id
                  THEN /\ tasks'[m][i].status # tasks[m][i].status
                       /\ tasks'[m][i].status \in {"complete", "incomplete"}
                       /\ tasks[m][i].status = "complete"
                            => tasks'[m][i].status = "incomplete"
                  ELSE tasks'[m][i].status = tasks[m][i].status
          /\ \A i \in 1..Len(tasks[m]) :
               ToggledTasks(tasks'[m], last'.id, now' + 1)[i].status = tasks[m][i].status
    ]_vars

\* a complete record has just been toggled to incomplete
C9_Witness ==
  /\ last.op = "toggle"
  /\ \E i \in 1..Len(tasks[last.m]) :
       /\ tasks[last.m][i]._id = last.id
       /\ tasks[last.m][i].status = "incomplete"
       /\ tasks[last.m][i].updatedAt = now
  /\ Len(tasks[last.m]) > 1

(***************************************************************************)
(* C10.  handleStatusChange with an identifier that matches no record      *)
(* leaves the projection of the instance and the value stored under        *)
(* 'tasks' as they were, and sets no error.                                *)
(***************************************************************************)
C10_UnknownIdIsNoOp ==
  [][ \A m \in TaskMgrs :
        (last'.op = "toggle" /\ last'.m = m /\ ~HasId(tasks[m], last'.id)) =>
          /\ tasks'[m] = tasks[m]
          /\ localStorage' = localStorage
          /\ error'[m] = Null
    ]_vars

(***************************************************************************)
(* C11.  Save validation: a Save pressed while the title of the edit form  *)
(* is empty once trimmed writes nothing to the store, queues and           *)
(* dispatches no storage event, leaves the projection and the filtered     *)
(* view of every instance as they were, and leaves the instance in edit    *)
(* mode on the same record with the form as typed.                         *)
(***************************************************************************)
SavePressed(m) == last'.op \in {"save", "saveRejected"} /\ last'.m = m

C11_BlankTitleRejected ==
  [][ \A m \in TaskMgrs :
        (SavePressed(m) /\ trim(Chars(editForm[m].title)) = <<>>) =>
          /\ localStorage' = localStorage
          /\ events' = events
          /\ last'.ran = {}
          /\ tasks' = tasks
          /\ filteredTasks' = filteredTasks
          /\ editingTask'[m] = editingTask[m]
          /\ editingTask'[m] = last'.id
          /\ editForm'[m] = editForm[m]
    ]_vars

\* Save has just been refused for a title of white space only, and the
\* record is still being edited
C11_Witness ==
  /\ last.op = "saveRejected"
  /\ editForm[last.m].title = "  "
  /\ editingTask[last.m] = last.id
  /\ HasId(tasks[last.m], last.id)
  /\ \E i \in 1..Len(tasks[last.m]) :
       tasks[last.m][i]._id = last.id /\ tasks[last.m][i].title # "  "

(***************************************************************************)
(* C12.  Every record of the collection stored under 'tasks' has a title   *)
(* that is not empty once trimmed.  (Every stored collection of            *)
(* TasksAtStart has such titles.)                                          *)
(***************************************************************************)
NonBlankTitles(list) ==
  \A i \in 1..Len(list) : trim(Chars(list[i].title)) # <<>>

C12_StoredTitlesNonBlank ==
  ParsesToArray(localStorage["tasks"]) => NonBlankTitles(StoredCollection)

\* an accepted save has stored a title typed into the form
C12_Witness ==
  /\ last.op = "save"
  /\ \E i \in 1..Len(StoredCollection) :
       /\ StoredCollection[i]._id = last.id
       /\ StoredCollection[i].title \in FormInputs
       /\ StoredCollection[i].updatedAt = now

(***************************************************************************)
(* C13.  A Save pressed while the title of the edit form is not empty once *)
(* trimmed is accepted: the record of that identifier takes the title and  *)
(* the description of the form and keeps its status, every other record    *)
(* stays as it was, the resulting collection is what 'tasks' now stores,   *)
(* it is dispatched to every listener of the window and queued for every   *)
(* other window, and the instance is no longer in edit mode.               *)
(***************************************************************************)
C13_SaveReplacesOne ==
  [][ \A m \in TaskMgrs :
        (SavePressed(m) /\ trim(Chars(editForm[m].title)) # <<>>) =>
          /\ last'.op = "save"
          /\ Len(tasks'[m]) = Len(tasks[m])
          /\ \A i \in 1..Len(tasks[m]) :
               IF tasks[m][i]._id = last'.id
               THEN /\ tasks'[m][i]._id = last'.id
                    /\ tasks'[m][i].title = editForm[m].title
                    /\ tasks'[m][i].description = editForm[m].description
                    /\ tasks'[m][i].status = tasks[m][i].status
               ELSE tasks'[m][i] = tasks[m][i]
          /\ localStorage'["tasks"] = stringify(tasks'[m])
          /\ \A b \in Listeners(win[m]) : tasks'[b] = tasks'[m]
          /\ \A w \in Windows \ {win[m]} :
               localStorage' # localStorage =>
                 /\ Len(events'[w]) = Len(events[w]) + 1
                 /\ events'[w][Len(events'[w])].newValue = localStorage'["tasks"]
          /\ editingTask'[m] = Null
    ]_vars

\* a save has just replaced the title and the description of one record of
\* several, and the form is closed
C13_Witness ==
  /\ last.op = "save"
  /\ editingTask[last.m] = Null
  /\ Len(tasks[last.m]) > 1
  /\ StoredCollection = tasks[last.m]
  /\ \E i \in 1..Len(tasks[last.m]) :
       /\ tasks[last.m][i]._id = last.id
       /\ tasks[last.m][i].title = editForm[last.m].title
       /\ tasks[last.m][i].description = "New"
       /\ tasks[last.m][i].updatedAt = now

(***************************************************************************)
(* C14.  Delete confirm flow: a record leaves the table of an instance     *)
(* only in a handleDelete of that instance on the identifier that was      *)
(* already awaiting confirmation.  A handleDelete on any other identifier, *)
(* whether or not another row was awaiting confirmation, removes nothing   *)
(* from any table, leaves the store as it is and makes that identifier the *)
(* one awaiting confirmation; a handleDelete on the identifier awaiting    *)
(* confirmation removes it.                                                *)
(***************************************************************************)
\* the step just taken is a handleDelete of instance m
DeletePressed(m) == last'.op \in {"request", "delete"} /\ last'.m = m

C14_DeleteNeedsConfirmation ==
  [][ \A m \in LogMgrs :
        /\ \A id \in LogIdSet(userLogs[m]) \ LogIdSet(userLogs'[m]) :
             /\ DeletePressed(m)
             /\ last'.id = id
             /\ deleteConfirm[m] = id
        /\ (DeletePressed(m) /\ deleteConfirm[m] # last'.id) =>
             /\ userLogs' = userLogs
             /\ localStorage' = localStorage
             /\ deleteConfirm'[m] = last'.id
        /\ (DeletePressed(m) /\ deleteConfirm[m] = last'.id) =>
             last'.id \notin LogIdSet(userLogs'[m])
    ]_vars

\* the only instance was asked about one row, then about another, then
\* again about that other row: that one is gone, the first is still listed
C14_Witness ==
  /\ last.op = "delete"
  /\ ops = 3
  /\ \A k \in LogMgrs \ {last.m} : logLife[k] = "init"
  /\ Len(userLogs[last.m]) = 2
  /\ last.id \notin LogIdSet(userLogs[last.m])
  /\ deleteConfirm[last.m] = Null

(***************************************************************************)
(* C15.  A confirmed delete takes out of the table exactly the rows of the *)
(* identifier, keeps every other row and their order, stores the reduced   *)
(* collection under 'userLogs', which then parses to what the table        *)
(* shows, and leaves no row awaiting confirmation.                         *)
(***************************************************************************)
\* the positions of logs whose record does not carry id
KeptRows(logs, id) == {i \in 1..Len(logs) : logs[i].id # id}

C15_ConfirmedDeleteRemovesOne ==
  [][ \A m \in LogMgrs :
        (DeletePressed(m) /\ deleteConfirm[m] = last'.id) =>
          LET kept == KeptRows(userLogs[m], last'.id)
          IN  /\ last'.op = "delete"
              /\ Len(userLogs'[m]) = Cardinality(kept)
              /\ \A i \in kept :
                   userLogs'[m][Cardinality({j \in kept : j <= i})] = userLogs[m][i]
              /\ ParsesToArray(localStorage'["userLogs"])
              /\ parse(localStorage'["userLogs"]) = userLogs'[m]
              /\ deleteConfirm'[m] = Null
    ]_vars

\* a row that was not the first of three has just been deleted: the two
\* others are listed, and stored, in their order
C15_Witness ==
  /\ last.op = "delete"
  /\ Len(userLogs[last.m]) = 2
  /\ last.id \in {"2", "5"}
  /\ parse(localStorage["userLogs"]) = userLogs[last.m]
  /\ userLogs[last.m][1].loginTime >= userLogs[last.m][2].loginTime
  /\ deleteConfirm[last.m] = Null

(***************************************************************************)
(* C16.  cancelDelete leaves no row of the instance awaiting confirmation  *)
(* and changes nothing else: every table, the store, and the rows awaiting *)
(* confirmation in other instances are as before.  With no row awaiting    *)
(* confirmation, one handleDelete, on whichever identifier, removes        *)
(* nothing and only makes that identifier await confirmation.              *)
(***************************************************************************)
C16_CancelOnlyClearsMarker ==
  [][ \A m \in LogMgrs :
        /\ (last'.op = "cancelDelete" /\ last'.m = m) =>
             /\ deleteConfirm' = [deleteConfirm EXCEPT ![m] = Null]
             /\ userLogs' = userLogs
             /\ localStorage' = localStorage
             /\ logsLoading' = logsLoading
        /\ (DeletePressed(m) /\ deleteConfirm[m] = Null) =>
             /\ last'.op = "request"
             /\ userLogs' = userLogs
             /\ localStorage' = localStorage
             /\ deleteConfirm'[m] = last'.id
    ]_vars

\* a row was awaiting confirmation and Cancel has just been pressed: the
\* row is still listed and stored, and no row awaits confirmation
C16_Witness ==
  /\ last.op = "cancelDelete"
  /\ deleteConfirm[last.m] = Null
  /\ last.id \in LogIdSet(userLogs[last.m])
  /\ Len(userLogs[last.m]) = 3
  /\ LogIdSet(userLogs[last.m]) = StoredLogIds

(***************************************************************************)
(* C17.  resetLogs runs only for an instance whose table is empty, and     *)
(* leaves the table and the collection stored under 'userLogs' equal to    *)
(* the three default records, identifiers '1', '2', '3'.                   *)
(***************************************************************************)
LogIdsOf(logs) == [i \in 1..Len(logs) |-> logs[i].id]

C17_ResetOnlyWhenEmpty ==
  [][ \A m \in LogMgrs :
        (last'.op = "reset" /\ last'.m = m) =>
          /\ userLogs[m] = <<>>
          /\ LogIdsOf(userLogs'[m]) = <<"1", "2", "3">>
          /\ userLogs'[m] = mockLogs(now')
          /\ ParsesToArray(localStorage'["userLogs"])
          /\ parse(localStorage'["userLogs"]) = userLogs'[m]
    ]_vars

\* an instance whose table was empty has just been reset
C17_Witness ==
  /\ last.op = "reset"
  /\ Len(userLogs[last.m]) = 3
  /\ parse(localStorage["userLogs"]) = userLogs[last.m]
  /\ userLogs[last.m][1].id = "1"

(***************************************************************************)
(* C18.  Log load: when loadUserLogs of a mounted instance finds the       *)
(* 'userLogs' key absent, or holding the text 'null' or '[]', it stores    *)
(* the three default records and shows them; when it finds a stored        *)
(* collection that is not empty it shows those records; in both cases the  *)
(* table is then in descending order of loginTime.                         *)
(***************************************************************************)
Descending(logs) ==
  \A i, j \in 1..Len(logs) : i < j => logs[i].loginTime >= logs[j].loginTime

\* how often record r occurs in logs
Occurrences(logs, r) == Cardinality({i \in 1..Len(logs) : logs[i] = r})

SameRecords(a, b) ==
  /\ Len(a) = Len(b)
  /\ \A i \in 1..Len(a) : Occurrences(a, a[i]) = Occurrences(b, a[i])

C18_LogLoadSeedsAndSorts ==
  [][ \A m \in LogMgrs :
        (last'.op = "load" /\ last'.m = m /\ logLife[m] = "mounted") =>
          LET stored == localStorage["userLogs"]
          IN  /\ stored \in {Absent, NullText, stringify(<<>>)} =>
                   /\ LogIdsOf(userLogs'[m]) = <<"1", "2", "3">>
                   /\ ParsesToArray(localStorage'["userLogs"])
                   /\ parse(localStorage'["userLogs"]) = userLogs'[m]
                   /\ Descending(userLogs'[m])
              /\ (ParsesToArray(stored) /\ parse(stored) # <<>>) =>
                   /\ localStorage' = localStorage
                   /\ SameRecords(userLogs'[m], parse(stored))
                   /\ Descending(userLogs'[m])
    ]_vars

\* an instance has just loaded a collection that was stored out of order
\* and shows it in order
C18_Witness ==
  /\ last.op = "load"
  /\ logLife[last.m] = "mounted"
  /\ ~logsLoading[last.m]
  /\ localStorage["userLogs"] = stringify(StoredLogs)
  /\ ~Descending(StoredLogs)
  /\ userLogs[last.m] # StoredLogs
  /\ Descending(userLogs[last.m])

(***************************************************************************)
(* C19.  handleStorageChange only receives.  A delivery of a queued event  *)
(* puts the collection the event carries into the projection of every      *)
(* listener of the window and of no other instance, writes nothing to the  *)
(* store and queues no event: the queue of the window loses its head and   *)
(* the other queues stay as they are.  A toggle or an accepted save runs   *)
(* the handler of each listener of its window once, within the step,       *)
(* queues nothing on its own window and at most one event on every other   *)
(* window.  So every queue empties after as many deliveries as it holds    *)
(* events.                                                                 *)
(***************************************************************************)
C19_HandlerOnlyReceives ==
  [][ /\ \A w \in Windows : (last'.op = "deliver" /\ last'.m = w) =>
           /\ localStorage' = localStorage
           /\ events' = [events EXCEPT ![w] = Tail(events[w])]
           /\ last'.ran = Listeners(w)
           /\ \A b \in TaskMgrs :
                tasks'[b] = IF b \in Listeners(w)
                            THEN parse(Head(events[w]).newValue)
                            ELSE tasks[b]
      /\ \A a \in TaskMgrs : WroteThrough(a) =>
           /\ last'.ran = Listeners(win[a])
           /\ events'[win[a]] = events[win[a]]
           /\ \A w \in Windows \ {win[a]} :
                \/ events'[w] = events[w]
                \/ /\ Len(events'[w]) = Len(events[w]) + 1
                   /\ SubSeq(events'[w], 1, Len(events[w])) = events[w]
    ]_vars

\* after a toggle or a save, the last queued event has been delivered to a
\* window with listeners; nothing is queued any more, and every listener
\* there holds the stored collection
C19_Witness ==
  /\ last.op = "deliver"
  /\ now > 1
  /\ AllDelivered
  /\ last.ran # {}
  /\ \A b \in last.ran : tasks[b] = StoredCollection
  /\ \E i \in 1..Len(StoredCollection) : StoredCollection[i].updatedAt = now

(***************************************************************************)
(* C20.  A filter change by the status select, the search box or the       *)
(* Clear Filters button changes the filters and the filtered view of that  *)
(* instance and nothing else: the store, the queued events, every          *)
(* projection, the record in edit mode and the edit form, and the filters  *)
(* and the filtered view of every other instance stay as they were, and no *)
(* handleStorageChange runs.                                               *)
(***************************************************************************)
C20_FilterChangeFrame ==
  [][ \A m \in TaskMgrs :
        (last'.op \in {"filter", "clear"} /\ last'.m = m) =>
          /\ filteredTasks'[m] = applyFilters(tasks[m], filters'[m])
          /\ localStorage' = localStorage
          /\ events' = events
          /\ last'.ran = {}
          /\ tasks' = tasks
          /\ editingTask' = editingTask
          /\ editForm' = editForm
          /\ loading' = loading
          /\ error' = error
          /\ life' = life
          /\ \A b \in TaskMgrs \ {m} :
               filters'[b] = filters[b] /\ filteredTasks'[b] = filteredTasks[b]
    ]_vars

\* a filter has just narrowed the view of an instance that has a record in
\* edit mode
C20_Witness ==
  /\ last.op = "filter"
  /\ editingTask[last.m] # Null
  /\ filters[last.m] # InitFilters
  /\ Len(filteredTasks[last.m]) < Len(tasks[last.m])
  /\ filteredTasks[last.m] = applyFilters(tasks[last.m], filters[last.m])

(***************************************************************************)
(* C21.  Filter idempotence: applyFilters applied, with the same filters,  *)
(* to the view that applyFilters has produced gives that same view, for    *)
(* every collection of FilterCollections and every status and search of    *)
(* FilterSettings.                                                         *)
(***************************************************************************)
C21_FilterIdempotent ==
  [][ last'.op = "reapply" => filteredTasks'[1] = filteredTasks[1] ]_vars

\* a filter on status and on a search has kept some records and dropped
\* others, and has been applied to its result
C21_Witness ==
  /\ last.op = "reapply"
  /\ filters[1].status # "all"
  /\ trim(Chars(filters[1].search)) # <<>>
  /\ filteredTasks[1] # <<>>
  /\ Len(filteredTasks[1]) < Len(tasks[1])

(***************************************************************************)
(* C22.  Neutral filter: with status 'all' and the empty search,           *)
(* applyFilters gives the collection itself, same records in same order.   *)
(***************************************************************************)
C22_NeutralFilter ==
  (last.op = "apply" /\ filters[1] = [status |-> "all", search |-> ""])
    => filteredTasks[1] = tasks[1]

\* the neutral filter has been applied to two different records of
\* different status
C22_Witness ==
  /\ last.op = "apply"
  /\ filters[1] = [status |-> "all", search |-> ""]
  /\ Len(tasks[1]) = 2
  /\ tasks[1][1].status # tasks[1][2].status
  /\ filteredTasks[1] = tasks[1]

(***************************************************************************)
(* C23.  Filter exactness: applyFilters gives, in the order of the         *)
(* collection, exactly the records whose status is the one asked for       *)
(* (or any, for 'all') and whose title or description contains the         *)
(* trimmed search whatever the case of the letters (or any, when the       *)
(* trimmed search is empty).                                               *)
(***************************************************************************)
\* sub occurs in s when the case of the letters is ignored
ContainsIgnoringCase(s, sub) ==
  \E k \in 0..(Len(s) - Len(sub)) :
     \A i \in 1..Len(sub) : LowerChar(s[k + i]) = LowerChar(sub[i])

PassesStatus(r, S) == S.status = "all" \/ r.status = S.status

PassesSearch(r, S) ==
  LET wanted == trim(Chars(S.search))
  IN  \/ wanted = <<>>
      \/ ContainsIgnoringCase(Chars(r.title), wanted)
      \/ ContainsIgnoringCase(Chars(r.description), wanted)

\* the positions of the records of list that pass both conditions
Passing(list, S) ==
  {i \in 1..Len(list) : PassesStatus(list[i], S) /\ PassesSearch(list[i], S)}

C23_FilterExact ==
  last.op = "apply" =>
    LET pass == Passing(tasks[1], filters[1])
    IN  /\ Len(filteredTasks[1]) = Cardinality(pass)
        /\ \A i \in pass :
             filteredTasks[1][Cardinality({j \in pass : j <= i})] = tasks[1][i]

\* a search in upper case has kept a record that matches in its description
\* only and dropped a record that matches nowhere
C23_Witness ==
  /\ last.op = "apply"
  /\ filters[1].search = "DAY"
  /\ Len(tasks[1]) = 2
  /\ Len(filteredTasks[1]) = 1
  /\ filteredTasks[1][1] = tasks[1][2]
  /\ filteredTasks[1][1].description = "today"

(***************************************************************************)
(* C24.  Load state machine.  Every instance starts with the loading view. *)
(* An instance that is mounted and loading leaves the loading view once    *)
(* its timer has fired, unless it is unmounted first; an instance that is  *)
(* not loading shows exactly one of the error view, the empty view and the *)
(* list; and nothing, neither a handler nor a storage event, brings the    *)
(* loading view back.                                                      *)
(***************************************************************************)
InError(m)     == ~loading[m] /\ error[m] # Null
InEmpty(m)     == ~loading[m] /\ error[m] = Null /\ tasks[m] = <<>>
InPopulated(m) == ~loading[m] /\ error[m] = Null /\ tasks[m] # <<>>

ExactlyOneView(m) ==
  Cardinality({v \in {"error", "empty", "populated"} :
                 \/ v = "error" /\ InError(m)
                 \/ v = "empty" /\ InEmpty(m)
                 \/ v = "populated" /\ InPopulated(m)}) = 1

C24_LoadStateMachine ==
  /\ \A m \in TaskMgrs : loading[m]
  /\ \A m \in TaskMgrs :
       (life[m] = "mounted" /\ loading[m]) ~> (~loading[m] \/ life[m] = "unmounted")
  /\ [](\A m \in TaskMgrs : ~loading[m] => ExactlyOneView(m))
  /\ [][\A m \in TaskMgrs : ~loading[m] => ~loading'[m]]_vars

\* every instance has left the loading view, one shows the list, and
\* handlers and a delivery have run since
C24_Witness ==
  /\ \A m \in TaskMgrs : life[m] = "mounted" /\ ~loading[m]
  /\ InPopulated(1)
  /\ ops = MaxOps
  /\ last.op = "deliver"

(***************************************************************************)
(* C25.  Tasks are never deleted and identifiers stay unique: once 'tasks' *)
(* stores a collection whose identifiers are pairwise different, every     *)
(* step leaves under 'tasks' a collection with the same set of             *)
(* identifiers, pairwise different.                                        *)
(***************************************************************************)
TaskIdSet(list) == {list[i]._id : i \in 1..Len(list)}

UniqueIds(list) == Cardinality(TaskIdSet(list)) = Len(list)

C25_IdsStableAndUnique ==
  [][ (ParsesToArray(localStorage["tasks"]) /\ UniqueIds(StoredCollection)) =>
        /\ ParsesToArray(localStorage'["tasks"])
        /\ TaskIdSet(StoredCollection') = TaskIdSet(StoredCollection)
        /\ UniqueIds(StoredCollection')
    ]_vars

\* a second write of a toggle or a save has left all four seed records
\* stored, one of them changed
C25_Witness ==
  /\ last.op \in {"toggle", "save"}
  /\ now > 2
  /\ IdsOf(StoredCollection) = SeedIds
  /\ StoredCollection # mockTasks
  /\ HasId(StoredCollection, last.id)

(***************************************************************************)
(* C26.  Write-through: when handleStatusChange or an accepted saveTask of *)
(* an instance returns, the text stored under 'tasks' parses to the        *)
(* projection of that instance.                                            *)
(***************************************************************************)
C26_WriteThrough ==
  [][ \A a \in TaskMgrs : WroteThrough(a) =>
        /\ ParsesToArray(localStorage'["tasks"])
        /\ parse(localStorage'["tasks"]) = tasks'[a]
    ]_vars

\* an instance has just written and reads its own write, while a loaded
\* instance of another window still shows the collection as it was
C26_Witness ==
  /\ last.op \in {"toggle", "save"}
  /\ HasId(tasks[last.m], last.id)
  /\ StoredCollection = tasks[last.m]
  /\ \E b \in TaskMgrs :
       /\ Ready(b)
       /\ win[b] # win[last.m]
       /\ tasks[b] # StoredCollection

(***************************************************************************)
(* C27.  Unmount releases the listener: no step changes the projection or  *)
(* the filtered view of an instance that is unmounted, while a toggle or a *)
(* save still reaches every mounted instance of its window and a delivered *)
(* storage event every mounted instance of the window it is delivered to.  *)
(***************************************************************************)
MountedIn(w) == {b \in TaskMgrs : life[b] = "mounted" /\ win[b] = w}

C27_UnmountReleasesListener ==
  [][ /\ \A m \in TaskMgrs : life[m] = "unmounted" =>
           /\ tasks'[m] = tasks[m]
           /\ filteredTasks'[m] = filteredTasks[m]
      /\ \A a \in TaskMgrs : WroteThrough(a) =>
           \A b \in MountedIn(win[a]) : tasks'[b] = parse(localStorage'["tasks"])
      /\ \A w \in Windows : (last'.op = "deliver" /\ last'.m = w) =>
           \A b \in MountedIn(w) : tasks'[b] = parse(Head(events[w]).newValue)
    ]_vars

\* an instance has written in a window where a loaded instance had been
\* unmounted: that one still holds the collection as it was
C27_Witness ==
  /\ last.op \in {"toggle", "save"}
  /\ HasId(tasks[last.m], last.id)
  /\ \E u \in TaskMgrs :
       /\ life[u] = "unmounted"
       /\ win[u] = win[last.m]
       /\ ~loading[u]
       /\ tasks[u] # <<>>
       /\ tasks[u] # tasks[last.m]
       /\ u \notin last.ran

(***************************************************************************)
(* C28.  In every RecentUsers instance, deleteConfirm is null or the       *)
(* identifier of a row of the table; so it is null when the table is       *)
(* empty, and resetLogs never runs with a row awaiting confirmation.       *)
(***************************************************************************)
C28_MarkerIsNullOrARow ==
  \A m \in LogMgrs :
    /\ deleteConfirm[m] = Null \/ deleteConfirm[m] \in RowIds(m)
    /\ userLogs[m] = <<>> => deleteConfirm[m] = Null

\* after a confirmed delete, another row of the same table awaits
\* confirmation
C28_Witness ==
  /\ last.op = "request"
  /\ Len(userLogs[last.m]) = 2
  /\ deleteConfirm[last.m] = last.id
  /\ deleteConfirm[last.m] \in RowIds(last.m)

(***************************************************************************)
(* C29.  resetLogs never overwrites stored records: whenever the Reset     *)
(* Logs button of an instance is on screen, 'userLogs' does not store a    *)
(* collection that has records.                                            *)
(***************************************************************************)
ResetShown(m) == LogsView(m) /\ userLogs[m] = <<>>

C29_ResetNeverOverwrites ==
  \A m \in LogMgrs :
    ResetShown(m) =>
      ~(ParsesToArray(localStorage["userLogs"])
          /\ parse(localStorage["userLogs"]) # <<>>)

(***************************************************************************)
(* C30.  The loadTasks of an instance that was unmounted before its delay  *)
(* elapsed leaves the store as it is.                                      *)
(***************************************************************************)
C30_NoWriteAfterUnmount ==
  [][ \A m \in TaskMgrs :
        (last'.op = "load" /\ last'.m = m /\ life[m] = "unmounted")
          => localStorage' = localStorage ]_vars

====
